---- MODULE Spec2Model ----
(***************************************************************************)
(* Model of gather.py: process_repos harvests each repository of           *)
(* repo_list (metadata check, gather_commits, gather_issues_and_prs,       *)
(* finalize_repo_data), classifying every item into a milestone bucket     *)
(* and writing the snapshot ms_l to the repository's file after each page. *)
(*                                                                         *)
(* Time is counted in hours.  An aware datetime is a record                *)
(* [utc, off]: the instant in UTC hours and the UTC offset of its zone.    *)
(***************************************************************************)
EXTENDS Integers, Sequences, FiniteSets, TLC

(* ---------------------------- bounds ---------------------------------- *)
\* total number of items the remote side delivers in pages during one run
MaxItems == 3
\* largest number of items of one page
MaxPageLen == 2
\* largest number of milestones when the classification is checked alone
MaxMilestones == 2

(* ------------------------ program constants --------------------------- *)
\* gmt_str = '+03:00' and timedelta(hours=3)
GmtOffset == 3
HoursPerDay == 24
\* retry_count=3 of get_diff
retry_count == 3
\* the "+ 1" of sleep_time and wait_time, and the 300 they are compared with
Margin == 1
Ceiling == 300

(* ------------------------ datetime helpers ---------------------------- *)
\* datetime.fromisoformat(s.replace('Z', '+00:00')) of an API timestamp
\* "....Z" that denotes UTC hour h
fromisoformat_Z(h) == [utc |-> h, off |-> 0]

\* datetime.fromisoformat(f'{Y}-{m}-{d}T{H}:{M}:{S}+03:00') of configured
\* wall-clock hour h
fromisoformat_gmt(h) == [utc |-> h - GmtOffset, off |-> GmtOffset]

\* dt + timedelta(hours=n)
plus_hours(dt, n) == [dt EXCEPT !.utc = @ + n]

\* dt.strftime('%Y-%m-%d %H:%M:%S'): the wall-clock fields of dt in its own
\* zone, as <<day, hour>>
strftime(dt) ==
    LET wall == dt.utc + dt.off
    IN  <<wall \div HoursPerDay, wall % HoursPerDay>>

\* a < b on aware datetimes: compares the instants
Before(a, b) == a.utc < b.utc

\* s1 < s2 on two strftime strings (lexicographic, fields are zero padded)
DateStrLess(s1, s2) == s1[1] < s2[1] \/ (s1[1] = s2[1] /\ s1[2] < s2[2])

(* ---------------------- milestone classification ---------------------- *)
\* the mutant of classify: the last milestone whose cutoff exceeds date_t
classify_last(date_t, nb, ms) ==
    LET hit == {i \in 1..Len(ms) : Before(date_t, ms[i])}
    IN  IF Before(date_t, nb) THEN -1
        ELSE IF hit = {} THEN Len(ms)
        ELSE (CHOOSE i \in hit : \A j \in hit : i >= j) - 1

\* the mutant of classify: the loop goes on after a milestone of the past,
\* and takes the first milestone that lies before date_t
classify_reversed(date_t, nb, ms) ==
    LET hit == {i \in 1..Len(ms) : Before(ms[i], date_t)}
    IN  IF Before(date_t, nb) THEN -1
        ELSE IF hit = {} THEN Len(ms)
        ELSE (CHOOSE i \in hit : \A j \in hit : i <= j) - 1

\* The class of an item's timestamp: -1 when date_t < not_before_date (the
\* item loop breaks), else the index i (from 0, as enumerate(ms_dates)
\* counts) of the first milestone with date_t < ms_date, else Len(ms) when
\* the loop over the milestones ends without a hit (the item is dropped).
classify(date_t, nb, ms) ==
    LET hit == {i \in 1..Len(ms) : Before(date_t, ms[i])}
    IN  IF Before(date_t, nb) THEN -1
        ELSE IF hit = {} THEN Len(ms)
        ELSE (CHOOSE i \in hit : \A j \in hit : i <= j) - 1

(* ----------------------------- inputs --------------------------------- *)
\* repo_list of main()
repo_list == <<"o/r1", "o/r2">>

\* not_before_d and ms_dates_formatted, as wall-clock hours at +03:00
not_before_d == 24
ms_dates_formatted == <<33, 57>>

\* identities in ascending string order (Python compares str by code point)
Names == <<"alice", "bob", "carol", "unknown">>
StrRank(s) == CHOOSE i \in 1..Len(Names) : Names[i] = s
StrLess(a, b) == StrRank(a) < StrRank(b)

\* username_mappings.get(username, username), with
\* username_mappings = {'alice': 'Alice A.'}
get_full_name(username) == IF username = "alice" THEN "Alice A." ELSE username

(* ------------------- author-keyed mappings (dict) --------------------- *)
\* A Python dict keeps its keys in insertion order: keys is that order, val
\* the mapping itself.
EmptyDict == [keys |-> <<>>, val |-> <<>>]

Has(d, k) == k \in DOMAIN d.val

\* d[k] = v
DictSet(d, k, v) ==
    [keys |-> IF Has(d, k) THEN d.keys ELSE Append(d.keys, k),
     val  |-> (k :> v) @@ d.val]

\* {'count': 0, 'list': [], 'full_name': full_name}
new_bucket(author_name) ==
    [count |-> 0, list |-> <<>>, full_name |-> get_full_name(author_name)]

\* if author not in d: d[author] = {'count': 0, 'list': [], ...}
create_entry(d, author_name) ==
    IF Has(d, author_name) THEN d ELSE DictSet(d, author_name, new_bucket(author_name))

\* the mutant of add_record: the record is appended, the count is left alone
add_record_no_count(d, author_name, rec) ==
    LET e == create_entry(d, author_name)
    IN  DictSet(e, author_name, [e.val[author_name] EXCEPT !.list = Append(@, rec)])

\* the mutant of add_record: the record takes the place of the list
add_record_replace(d, author_name, rec) ==
    LET e == create_entry(d, author_name)
    IN  DictSet(e, author_name,
                [e.val[author_name] EXCEPT !.list = <<rec>>, !.count = 1])

\* d[author]['list'].append(rec); d[author]['count'] += 1, the entry being
\* created first when it is missing
add_record(d, author_name, rec) ==
    LET e == create_entry(d, author_name)
    IN  DictSet(e, author_name,
                [e.val[author_name] EXCEPT !.list = Append(@, rec), !.count = @ + 1])

\* for author_name in names: add_record(...)
RECURSIVE credit(_, _, _)
credit(d, names, rec) ==
    IF names = <<>> THEN d
    ELSE credit(add_record(d, Head(names), rec), Tail(names), rec)

(* --------------------------- the snapshot ----------------------------- *)
\* ms_l = [{'date': ms_date.strftime(...), 'commits': {}, 'issues': {},
\*          'prs': {}} for ms_date in ms_dates]
new_ms_l(ms) ==
    [i \in 1..Len(ms) |->
        [date |-> strftime(ms[i]), commits |-> EmptyDict,
         issues |-> EmptyDict, prs |-> EmptyDict]]

Kinds == {"commits", "issues", "prs"}

\* json.dump(ms_l, f): the document is an array of objects; an object lists
\* its members as key/value pairs in the dict's key order
json_object(d) == [k \in 1..Len(d.keys) |-> <<d.keys[k], d.val[d.keys[k]]>>]
json_dump(ms) ==
    [i \in 1..Len(ms) |->
        [date |-> ms[i].date, commits |-> json_object(ms[i].commits),
         issues |-> json_object(ms[i].issues), prs |-> json_object(ms[i].prs)]]

\* the content of a file that does not exist, and of one that open('w')
\* has truncated and json.dump has not written yet
NoFile == [state |-> "absent", doc |-> <<>>]
Truncated == [state |-> "truncated", doc |-> <<>>]
\* the mutant of Written: json.dump leaves the file as open('w') made it
Written_nothing(doc) == [state |-> "truncated", doc |-> <<>>]
Written(doc) == [state |-> "written", doc |-> doc]

(* --------------------------- finalization ----------------------------- *)
\* the mutant of insert_by_date: the record goes before the records of its
\* own date
insert_by_date_unstable(s, x) ==
    LET n == Cardinality({k \in 1..Len(s) : DateStrLess(s[k].date, x.date)})
    IN  SubSeq(s, 1, n) \o <<x>> \o SubSeq(s, n + 1, Len(s))

\* one step of the stable sort: x goes behind every record of s that does
\* not sort after it
insert_by_date(s, x) ==
    LET n == Cardinality({k \in 1..Len(s) : ~DateStrLess(x.date, s[k].date)})
    IN  SubSeq(s, 1, n) \o <<x>> \o SubSeq(s, n + 1, Len(s))

\* sorted(l, key=lambda x: x['date'])
RECURSIVE sorted_by_date(_)
sorted_by_date(l) ==
    IF l = <<>> THEN <<>>
    ELSE insert_by_date(sorted_by_date(SubSeq(l, 1, Len(l) - 1)), l[Len(l)])

\* the keys of dict(sorted(d.items())): the keys are distinct, so the items
\* sort by key alone
RECURSIVE sorted_keys(_)
sorted_keys(keys) ==
    IF keys = <<>> THEN <<>>
    ELSE LET rest == sorted_keys(SubSeq(keys, 1, Len(keys) - 1))
             x    == keys[Len(keys)]
             n    == Cardinality({k \in 1..Len(rest) : StrLess(rest[k], x)})
         IN  SubSeq(rest, 1, n) \o <<x>> \o SubSeq(rest, n + 1, Len(rest))

\* the mutant of finalize_dict: the lists are sorted, the keys are not
finalize_dict_lists_only(d) ==
    [keys |-> d.keys,
     val  |-> [a \in DOMAIN d.val |-> [d.val[a] EXCEPT !.list = sorted_by_date(@)]]]

\* both passes of finalize_repo_data over one mapping
finalize_dict(d) ==
    [keys |-> sorted_keys(d.keys),
     val  |-> [a \in DOMAIN d.val |-> [d.val[a] EXCEPT !.list = sorted_by_date(@)]]]

\* the snapshot finalize_repo_data leaves in ms_l
finalize_repo_data(ms) ==
    [i \in 1..Len(ms) |->
        [date |-> ms[i].date, commits |-> finalize_dict(ms[i].commits),
         issues |-> finalize_dict(ms[i].issues), prs |-> finalize_dict(ms[i].prs)]]

(* ------------------------- the remote side ---------------------------- *)
\* A commit of the commits listing.  date is the UTC hour of
\* commit.author.date; login is "" when commit['author'] is null; message
\* is the list of the message's lines, a line being <<"text", t>> or a
\* trailer <<"Co-authored-by", name>>; bad names the key whose read raises
\* ("none": the item is well formed).
Commit(sha, date, login, name, message, bad) ==
    [sha |-> sha, url |-> <<"api", sha>>, html_url |-> <<"html", sha>>,
     date |-> date, login |-> login, name |-> name, message |-> message,
     bad |-> bad]

c1 == Commit("s1", 21, "alice", "Alice", <<<<"text", "m1">>>>, "none")
c2 == Commit("s2", 22, "alice", "Alice",
             <<<<"text", "m2">>, <<"Co-authored-by", "bob">>,
               <<"Co-authored-by", "carol">>>>, "none")
c3 == Commit("s3", 22, "", "bob",
             <<<<"text", "m3">>, <<"Co-authored-by", "bob">>,
               <<"Co-authored-by", "carol">>>>, "none")
c4 == Commit("s4", 20, "carol", "Carol", <<<<"text", "m4">>>>, "none")
c5 == Commit("s5", 45, "carol", "Carol", <<<<"text", "m5">>>>, "none")
c6 == Commit("s6", 54, "bob", "Bob", <<<<"text", "m6">>>>, "none")
c7 == Commit("s7", 22, "bob", "Bob", <<<<"text", "m7">>>>, "date")

\* the commits the listing of each repository of repo_list can return
CommitCatalog(r) == IF r = 1 THEN {c1, c2, c3, c4, c5, c6, c7} ELSE {c1}

\* An item of the issues listing; pr_commits lists the SHAs the pull
\* request's commit listing returns (<<>> for a plain issue), comments is
\* the item's comment count.
Issue(number, is_pr, created_at, login, comments, pr_commits, bad) ==
    [number |-> number, pull_request |-> is_pr, created_at |-> created_at,
     title |-> <<"title", number>>, body |-> <<"body", number>>,
     labels |-> <<"bug">>, assignees |-> <<"alice", "bob">>,
     login |-> login, comments |-> comments, state |-> "open",
     html_url |-> <<"html", number>>, pr_commits |-> pr_commits, bad |-> bad]

i1 == Issue(1, FALSE, 22, "alice", 0, <<>>, "none")
i2 == Issue(2, TRUE, 30, "bob", 1, <<"s1", "s2", "s1">>, "none")
i3 == Issue(3, TRUE, 44, "bob", 0, <<"s5">>, "none")
i4 == Issue(4, FALSE, 20, "carol", 0, <<>>, "none")
i5 == Issue(5, FALSE, 21, "carol", 0, <<>>, "state")
i6 == Issue(6, FALSE, 54, "bob", 0, <<>>, "created_at")

\* the items the issues listing of each repository can return
IssueCatalog(r) == IF r = 1 THEN {i2, i3, i4} ELSE {i1, i5, i6}

Shas == {"s1", "s2", "s3", "s4", "s5", "s6", "s7"}

\* what the remote side answers to a commit lookup
RemoteDiff(sha) ==
    IF sha = "s1" THEN [filenames |-> {"f1", "f2"}, total |-> 3]
    ELSE IF sha = "s2" THEN [filenames |-> {"f2"}, total |-> 5]
    ELSE [filenames |-> {"f3"}, total |-> 1]

\* the commits whose lookup can fail in all its attempts
Flaky == {"s2", "s5"}

\* what the remote side answers to the comment listing of an item
RemoteComments(number) == <<[login |-> "carol", body |-> <<"comment", number>>]>>

\* the pages a listing can return: 1..MaxPageLen items
PagesOf(catalog) == UNION {[1..n -> catalog] : n \in 1..MaxPageLen}

\* the ways a page request can end without a page of items: a network error
\* (no response), an error status, a body that is empty or no list
FetchFailures == {[exc |-> TRUE, status |-> 0], [exc |-> TRUE, status |-> 403],
                  [exc |-> TRUE, status |-> 500], [exc |-> FALSE, status |-> 200]}

\* the mutant of ResponseTruthy: any response is true
ResponseTruthy_any(status) == status # 0

\* bool(response): requests.Response.__bool__ is response.ok
ResponseTruthy(status) == status # 0 /\ status < 400

\* get_diff(url, headers) as its caller sees it: the remote statistics when
\* an attempt succeeds, {'filenames': set(), 'total': 0} when all fail
get_diff(sha, ok) ==
    IF ok THEN RemoteDiff(sha) ELSE [filenames |-> {}, total |-> 0]

(* ------------------------------ state --------------------------------- *)
VARIABLES
    not_before_date,  \* process_repos: the not-before cutoff, an aware datetime
    ms_dates,         \* process_repos: the milestone cutoffs, aware datetimes
    ri,               \* process_repos: position of the loop in repo_list
    pc,               \* the statement the run is at
    ms_l,             \* the snapshot of the repository being harvested
    prev_diffs,       \* the diff cache: SHA -> {'filenames', 'total'}
    page_n,           \* gather_*: number of the page to request
    page,             \* gather_*: the items of the page being processed
    idx,              \* gather_*: position of the item loop in page
    seen_before,      \* gather_*: an item older than the cutoff was met
    diffs,            \* gather_issues_and_prs: <<sha, diff>> of the last
                      \* pull request whose commits were aggregated
    files,            \* the output file of each repository
    reqlog,           \* history: <<repo, listing, page>> of each metadata
                      \* and page request, in order
    remote_calls,     \* history: remote calls made for each repository
    diff_calls,       \* history: get_diff calls per SHA in this harvest,
                      \* from the commit feed and from pull requests
    lookups,          \* history: the statistics each SHA's lookups yielded
    feed_stored,      \* history: what gather_commits stored in the cache
    too_old,          \* history: for each listing of this repository, the
                      \* page on which it met an item older than the
                      \* cutoff (0: none)
    unsorted,         \* history: the snapshot finalize_repo_data was
                      \* called with, until it returns
    fetched,          \* history: items delivered so far
    probe,            \* the pair of timestamps classified last, with
                      \* their classes
    resp,             \* gather_*: how the last page request ended
    call,             \* the remote call under way: its kind, and what it
                      \* has returned
    attempt,          \* get_diff: the loop variable
    trace             \* history: the requests and the sleeps of the call
                      \* under way, in order

vars == <<not_before_date, ms_dates, ri, pc, ms_l, prev_diffs, page_n, page, idx,
          seen_before, diffs, files, reqlog, remote_calls, diff_calls, lookups,
          feed_stored, too_old, unsorted, fetched, probe, resp, call, attempt,
          trace>>

config == <<not_before_date, ms_dates, probe>>
executor == <<call, attempt, trace>>
history == <<reqlog, remote_calls, diff_calls, lookups, feed_stored, too_old, fetched>>
NoneOld == [commits |-> 0, issues |-> 0]

Repos == 1..Len(repo_list)
NoProbe == [set |-> FALSE, t1 |-> 0, t2 |-> 0, c1 |-> 0, c2 |-> 0]

\* how a page request ended: the exception and the status of FetchFailures,
\* or a page of items
NoResp == [exc |-> FALSE, status |-> 0, items |-> 0]
Failed(f) == [exc |-> f.exc, status |-> f.status, items |-> 0]
Delivered(p) == [exc |-> FALSE, status |-> 200, items |-> Len(p)]

\* no remote call is under way
NoCall == [kind |-> "none", sha |-> "", state |-> "idle",
           result |-> [filenames |-> {}, total |-> 0]]

HarvestInit ==
    /\ ri = 1
    /\ pc = "verify"
    /\ ms_l = <<>>
    /\ prev_diffs = <<>>
    /\ page_n = 0
    /\ page = <<>>
    /\ idx = 0
    /\ seen_before = FALSE
    /\ diffs = <<>>
    /\ files = [r \in Repos |-> NoFile]
    /\ reqlog = <<>>
    /\ remote_calls = [r \in Repos |-> 0]
    /\ diff_calls = [s \in Shas |-> [feed |-> 0, pr |-> 0]]
    /\ lookups = [s \in Shas |-> {}]
    /\ feed_stored = <<>>
    /\ too_old = NoneOld
    /\ unsorted = <<>>
    /\ fetched = 0
    /\ resp = NoResp

\* process_repos up to its loop: the cutoffs are read at +03:00
Init ==
    /\ not_before_date = fromisoformat_gmt(not_before_d)
    /\ ms_dates = [i \in 1..Len(ms_dates_formatted) |->
                      fromisoformat_gmt(ms_dates_formatted[i])]
    /\ probe = NoProbe
    /\ call = NoCall
    /\ attempt = 0
    /\ trace = <<>>
    /\ HarvestInit

(* --------------------------- process_repos ---------------------------- *)
\* the mutant of repo_missing: the 404 check is dropped
repo_missing_never(status) == FALSE

\* if repo_req.status_code == 404
repo_missing(status) == status = 404

\* the mutant of next_repo: the loop passes over an entry of the list
next_repo_skip(i) == i + 2

\* for repo_tuple in repo_list: the position of the next turn
next_repo(i) == i + 1

\* the mutant of turn_snapshot: the list is built once, before the loop, and
\* every turn goes on with it
turn_snapshot_hoisted(old, ms) == IF old = <<>> THEN new_ms_l(ms) ELSE old

\* ms_l = [...] at the head of a turn, whatever the turn before has left
turn_snapshot(old, ms) == new_ms_l(ms)

\* One turn of the loop up to the first page request: the fresh snapshot,
\* the metadata request (status 0: requests.get raises), the skip of a
\* missing repository, the exception raise_for_status raises, the fresh
\* cache.
process_repos_verify ==
    /\ pc = "verify"
    /\ ri <= Len(repo_list)
    /\ \E status \in {200, 404, 500, 0} :
        /\ ms_l' = turn_snapshot(ms_l, ms_dates)
        /\ reqlog' = Append(reqlog, <<ri, "repo", status>>)
        /\ too_old' = NoneOld
        /\ diffs' = <<>>
        /\ resp' = NoResp
        /\ remote_calls' = [remote_calls EXCEPT ![ri] = @ + 1]
        /\ IF status # 0 /\ repo_missing(status)
           THEN /\ ri' = next_repo(ri)
                /\ pc' = "verify"
                /\ UNCHANGED <<prev_diffs, page_n, diff_calls, lookups, feed_stored>>
           ELSE IF status # 200
           THEN /\ pc' = "raised"
                /\ UNCHANGED <<ri, prev_diffs, page_n, diff_calls, lookups, feed_stored>>
           ELSE /\ pc' = "c_fetch"
                /\ page_n' = 1
                /\ prev_diffs' = <<>>
                /\ diff_calls' = [s \in Shas |-> [feed |-> 0, pr |-> 0]]
                /\ lookups' = [s \in Shas |-> {}]
                /\ feed_stored' = <<>>
                /\ UNCHANGED ri
    /\ UNCHANGED <<config, executor, page, idx, seen_before, files, unsorted, fetched>>

(* --------------------------- gather_commits --------------------------- *)
\* the 403 branch of the page request: taken when the exception carries a
\* response that is true and has status 403
rate_limited(f) == f.exc /\ ResponseTruthy(f.status) /\ f.status = 403

\* reset_time - time.time() when the exception is handled, in seconds: the
\* header names a moment of the past or is missing (reset_time = 0), or a
\* moment that far ahead
Ahead == {-5, 0, 10, 298, 299, 300, 1000}

\* max(0, reset_time - time.time()) + 1
wait_time(ahead) == (IF ahead > 0 THEN ahead ELSE 0) + Margin

\* the except clause of the commits page request: the seconds it sleeps
\* (0: it does not sleep) and how it leaves the turn of the page loop
commits_except(f, ahead) ==
    IF rate_limited(f) /\ wait_time(ahead) < Ceiling
    THEN [sleep |-> wait_time(ahead), next |-> "continue"]
    ELSE [sleep |-> 0, next |-> "break"]

\* the mutant of stop_pagination: the flag is not looked at
stop_pagination_never(seen) == FALSE

\* if seen_before: break
stop_pagination(seen) == seen

\* the mutant of next_page: a page number is skipped
next_page_skip(n) == n + 2

\* page_n += 1
next_page(n) == n + 1

\* the mutant of after_commits: after a failed page request the issues
\* are not gathered
after_commits_skip(r) == IF r.exc THEN "finalize" ELSE "i_fetch"

\* where process_repos goes on when gather_commits has left its page loop
\* on the response r: gather_issues_and_prs is called
after_commits(r) == "i_fetch"

\* the request of page page_n of the commits listing and what follows up to
\* the item loop
gather_commits_fetch ==
    /\ pc = "c_fetch"
    /\ reqlog' = Append(reqlog, <<ri, "commits", page_n>>)
    /\ remote_calls' = [remote_calls EXCEPT ![ri] = @ + 1]
    /\ \/ \E f \in FetchFailures, ahead \in Ahead :
            /\ resp' = Failed(f)
            /\ IF f.exc /\ commits_except(f, ahead).next = "continue"
               THEN pc' = "c_fetch" /\ page_n' = page_n
               ELSE pc' = after_commits(Failed(f)) /\ page_n' = 1
            /\ UNCHANGED <<page, idx, seen_before, fetched>>
       \/ \E p \in PagesOf(CommitCatalog(ri)) :
            /\ fetched + Len(p) <= MaxItems
            /\ resp' = Delivered(p)
            /\ page' = p
            /\ idx' = 1
            /\ seen_before' = FALSE
            /\ pc' = "c_item"
            /\ fetched' = fetched + Len(p)
            /\ UNCHANGED page_n
    /\ UNCHANGED <<config, executor, ri, ms_l, prev_diffs, diffs, files, diff_calls, lookups,
                   feed_stored, too_old, unsorted>>

\* coauthor_pattern.findall(message_t)
coauthor_findall(message) ==
    LET trailers == SelectSeq(message, LAMBDA line : line[1] = "Co-authored-by")
    IN  [k \in 1..Len(trailers) |-> trailers[k][2]]

\* the author of a commit: the login, else the raw name, else 'unknown'
commit_author(commit) ==
    IF commit.login # "" THEN commit.login
    ELSE IF commit.name # "" THEN commit.name
    ELSE "unknown"

\* the mutant of credited: the co-authors are left out
credited_author_only(commit) == <<commit_author(commit)>>

\* coauthors + [author_t]
credited(commit) == coauthor_findall(commit.message) \o <<commit_author(commit)>>

\* the record a commit leaves in a bucket
commit_record(commit, date_t, diff) ==
    [message |-> commit.message,
     date |-> strftime(plus_hours(date_t, GmtOffset)),
     link |-> commit.html_url,
     diff |-> [files |-> Cardinality(diff.filenames), total |-> diff.total]]

\* the mutant of NextItem: the item loop is left after the item
NextItem_break(save) == idx' = idx /\ pc' = save

\* the item loop: the next position, or the save when the page is done
NextItem(save) ==
    IF idx < Len(page) THEN idx' = idx + 1 /\ pc' = pc
    ELSE idx' = idx /\ pc' = save

\* one turn of the item loop of gather_commits
gather_commits_item ==
    /\ pc = "c_item"
    /\ LET commit == page[idx]
           date_t == fromisoformat_Z(commit.date)
           cls    == classify(date_t, not_before_date, ms_dates)
       IN  IF commit.bad # "none"
           THEN /\ NextItem("c_open")
                /\ UNCHANGED <<ms_l, prev_diffs, seen_before, remote_calls,
                               diff_calls, lookups, feed_stored, too_old>>
           ELSE IF cls = -1
           THEN /\ seen_before' = TRUE
                /\ pc' = "c_open"
                /\ too_old' = IF commit.date < not_before_date.utc
                              THEN [too_old EXCEPT !.commits = page_n] ELSE too_old
                /\ UNCHANGED <<ms_l, prev_diffs, idx, remote_calls, diff_calls,
                               lookups, feed_stored>>
           ELSE \E ok \in BOOLEAN :
                LET diff == get_diff(commit.sha, ok)
                    rec  == commit_record(commit, date_t, diff)
                IN  /\ ok \/ commit.sha \in Flaky
                    /\ prev_diffs' = (commit.sha :> diff) @@ prev_diffs
                    /\ feed_stored' = (commit.sha :> diff) @@ feed_stored
                    /\ diff_calls' = [diff_calls EXCEPT ![commit.sha].feed = @ + 1]
                    /\ lookups' = [lookups EXCEPT ![commit.sha] = @ \cup {diff}]
                    /\ remote_calls' = [remote_calls EXCEPT ![ri] = @ + 1]
                    /\ ms_l' = IF cls < Len(ms_dates)
                               THEN [ms_l EXCEPT ![cls + 1].commits =
                                        credit(@, credited(commit), rec)]
                               ELSE ms_l
                    /\ too_old' = IF commit.date < not_before_date.utc
                                  THEN [too_old EXCEPT !.commits = page_n]
                                  ELSE too_old
                    /\ NextItem("c_open")
                    /\ UNCHANGED seen_before
    /\ UNCHANGED <<config, executor, resp, ri, page_n, page, diffs, files, reqlog, fetched,
                   unsorted>>

\* with repo_path.open('w') as f: the file is created or truncated
gather_commits_open ==
    /\ pc = "c_open"
    /\ files' = [files EXCEPT ![ri] = Truncated]
    /\ pc' = "c_dump"
    /\ UNCHANGED <<config, executor, resp, ri, ms_l, prev_diffs, page_n, page, idx, seen_before,
                   diffs, history, unsorted>>

\* json.dump(ms_l, f), then the end of the turn of the page loop
gather_commits_dump ==
    /\ pc = "c_dump"
    /\ files' = [files EXCEPT ![ri] = Written(json_dump(ms_l))]
    /\ IF stop_pagination(seen_before)
       THEN pc' = "i_fetch" /\ page_n' = 1
       ELSE pc' = "c_fetch" /\ page_n' = next_page(page_n)
    /\ UNCHANGED <<config, executor, resp, ri, ms_l, prev_diffs, page, idx, seen_before, diffs,
                   history, unsorted>>

(* ----------------------- gather_issues_and_prs ------------------------ *)
\* the request of page page_n of the issues listing and what follows up to
\* the item loop; any failure ends the listing
gather_issues_fetch ==
    /\ pc = "i_fetch"
    /\ reqlog' = Append(reqlog, <<ri, "issues", page_n>>)
    /\ remote_calls' = [remote_calls EXCEPT ![ri] = @ + 1]
    /\ \/ \E f \in FetchFailures :
            /\ resp' = Failed(f)
            /\ pc' = "finalize"
            /\ UNCHANGED <<page, idx, seen_before, fetched>>
       \/ \E p \in PagesOf(IssueCatalog(ri)) :
            /\ fetched + Len(p) <= MaxItems
            /\ resp' = Delivered(p)
            /\ page' = p
            /\ idx' = 1
            /\ seen_before' = FALSE
            /\ pc' = "i_item"
            /\ fetched' = fetched + Len(p)
    /\ UNCHANGED <<config, executor, ri, ms_l, prev_diffs, page_n, diffs, files, diff_calls,
                   lookups, feed_stored, too_old, unsorted>>

\* the keys of {commit['sha']: commit['url'] for commit in commits_res}, in
\* insertion order
RECURSIVE sha_keys(_)
sha_keys(shas) ==
    IF shas = <<>> THEN <<>>
    ELSE LET rest == sha_keys(SubSeq(shas, 1, Len(shas) - 1))
             x    == shas[Len(shas)]
         IN  IF \E k \in DOMAIN rest : rest[k] = x THEN rest ELSE Append(rest, x)

\* the mutant of cached: the cache is never hit
cached_never(cache, sha) == FALSE

\* sha in prev_diffs
cached(cache, sha) == sha \in DOMAIN cache

\* for sha, url in urls.items(): the cache after the loop and the list diffs
\* it builds; oks tells which get_diff calls succeed
RECURSIVE pr_lookups(_, _, _)
pr_lookups(cache, urls, oks) ==
    IF urls = <<>> THEN [cache |-> cache, diffs |-> <<>>]
    ELSE LET sha  == Head(urls)
             diff == IF cached(cache, sha) THEN cache[sha] ELSE get_diff(sha, oks[sha])
             rest == pr_lookups((sha :> diff) @@ cache, Tail(urls), oks)
         IN  [cache |-> rest.cache, diffs |-> <<<<sha, diff>>>> \o rest.diffs]

RECURSIVE sum_total(_)
sum_total(ds) == IF ds = <<>> THEN 0 ELSE ds[1][2].total + sum_total(Tail(ds))

\* the mutant of pr_aggregate: the files of the commits are counted one by
\* one, a file changed by two commits twice
pr_aggregate_count(ds) ==
    [files |-> IF ds = <<>> THEN 0
               ELSE Cardinality(ds[1][2].filenames)
                    + Cardinality(UNION {ds[k][2].filenames : k \in 2..Len(ds)}),
     total |-> sum_total(ds)]

\* diff_d: the union of the file names, the sum of the totals
pr_aggregate(ds) ==
    [files |-> Cardinality(UNION {ds[k][2].filenames : k \in DOMAIN ds}),
     total |-> sum_total(ds)]

\* the comments list of an item
comment_records(number) ==
    LET res == RemoteComments(number)
    IN  [k \in 1..Len(res) |->
            [author |-> res[k].login,
             author_full_name |-> get_full_name(res[k].login),
             body |-> res[k].body]]

\* d, the record an issue leaves in a bucket
issue_record(issue, date_t, comments) ==
    [title |-> issue.title, desc |-> issue.body,
     date |-> strftime(plus_hours(date_t, GmtOffset)),
     labels |-> issue.labels, assignees |-> issue.assignees,
     assignee_full_names |->
        [k \in 1..Len(issue.assignees) |-> get_full_name(issue.assignees[k])],
     link |-> issue.html_url, state |-> issue.state, comments |-> comments]

\* d with d['diff'] = diff_d
pr_record(issue, date_t, comments, diff_d) ==
    [title |-> issue.title, desc |-> issue.body,
     date |-> strftime(plus_hours(date_t, GmtOffset)),
     labels |-> issue.labels, assignees |-> issue.assignees,
     assignee_full_names |->
        [k \in 1..Len(issue.assignees) |-> get_full_name(issue.assignees[k])],
     link |-> issue.html_url, state |-> issue.state, comments |-> comments,
     diff |-> diff_d]

\* the mutant of issue_credit: key_t is 'issues' for every item
issue_credit_one_key(ms, i, issue, rec) ==
    [ms EXCEPT ![i + 1].issues =
        IF issue.bad = "state" THEN create_entry(@, issue.login)
        ELSE add_record(@, issue.login, rec)]

\* ms_l after the milestone loop has met bucket i (from 0) for an item: the
\* author's entry is made, then issue['state'] is read (and raises when the
\* key is missing), then the record is appended and counted
issue_credit(ms, i, issue, rec) ==
    IF issue.pull_request
    THEN [ms EXCEPT ![i + 1].prs =
            IF issue.bad = "state" THEN create_entry(@, issue.login)
            ELSE add_record(@, issue.login, rec)]
    ELSE [ms EXCEPT ![i + 1].issues =
            IF issue.bad = "state" THEN create_entry(@, issue.login)
            ELSE add_record(@, issue.login, rec)]

\* one turn of the item loop of gather_issues_and_prs; cok, pok and oks
\* tell which of the comment listing, the pull request's commit listing
\* and the get_diff calls succeed
gather_issues_item ==
    /\ pc = "i_item"
    /\ LET issue  == page[idx]
           date_t == fromisoformat_Z(issue.created_at)
           cls    == classify(date_t, not_before_date, ms_dates)
           urls   == sha_keys(issue.pr_commits)
           urlset == {urls[k] : k \in DOMAIN urls}
           need   == {sha \in urlset : ~cached(prev_diffs, sha)}
       IN  IF issue.bad = "created_at"
           THEN /\ NextItem("i_open")
                /\ UNCHANGED <<ms_l, prev_diffs, seen_before, diffs, remote_calls,
                               diff_calls, lookups, too_old>>
           ELSE IF cls = -1
           THEN /\ seen_before' = TRUE
                /\ pc' = "i_open"
                /\ too_old' = IF issue.created_at < not_before_date.utc
                              THEN [too_old EXCEPT !.issues = page_n] ELSE too_old
                /\ UNCHANGED <<ms_l, prev_diffs, idx, diffs, remote_calls, diff_calls,
                               lookups>>
           ELSE \E cok \in BOOLEAN, pok \in BOOLEAN, oks \in [urlset -> BOOLEAN] :
                LET failed   == {sha \in urlset : ~oks[sha]}
                    comments == IF issue.comments > 0 /\ cok
                                THEN comment_records(issue.number) ELSE <<>>
                    looked   == pr_lookups(prev_diffs, urls, oks)
                    diff_d   == IF pok THEN pr_aggregate(looked.diffs)
                                ELSE [files |-> 0, total |-> 0]
                    rec      == IF issue.pull_request
                                THEN pr_record(issue, date_t, comments, diff_d)
                                ELSE issue_record(issue, date_t, comments)
                    ncalls   == (IF issue.comments > 0 THEN 1 ELSE 0)
                                + (IF issue.pull_request THEN 1 ELSE 0)
                                + (IF issue.pull_request /\ pok
                                   THEN Cardinality(need) ELSE 0)
                IN  /\ issue.comments = 0 => cok
                    /\ ~issue.pull_request => pok
                    /\ failed \subseteq (IF issue.pull_request /\ pok
                                         THEN need \cap Flaky ELSE {})
                    /\ remote_calls' = [remote_calls EXCEPT ![ri] = @ + ncalls]
                    /\ IF issue.pull_request /\ pok
                       THEN /\ prev_diffs' = looked.cache
                            /\ diffs' = looked.diffs
                            /\ diff_calls' = [sha \in Shas |->
                                  IF sha \in need
                                  THEN [diff_calls[sha] EXCEPT !.pr = @ + 1]
                                  ELSE diff_calls[sha]]
                            /\ lookups' = [sha \in Shas |->
                                  IF sha \in urlset
                                  THEN lookups[sha] \cup {looked.cache[sha]}
                                  ELSE lookups[sha]]
                       ELSE UNCHANGED <<prev_diffs, diffs, diff_calls, lookups>>
                    /\ ms_l' = IF cls < Len(ms_dates)
                               THEN issue_credit(ms_l, cls, issue, rec)
                               ELSE ms_l
                    /\ too_old' = IF issue.created_at < not_before_date.utc
                                  THEN [too_old EXCEPT !.issues = page_n]
                                  ELSE too_old
                    /\ NextItem("i_open")
                    /\ UNCHANGED seen_before
    /\ UNCHANGED <<config, executor, resp, ri, page_n, page, files, reqlog, feed_stored, fetched,
                   unsorted>>

\* with repo_path.open('w') as f: the file is created or truncated
gather_issues_open ==
    /\ pc = "i_open"
    /\ files' = [files EXCEPT ![ri] = Truncated]
    /\ pc' = "i_dump"
    /\ UNCHANGED <<config, executor, resp, ri, ms_l, prev_diffs, page_n, page, idx, seen_before,
                   diffs, history, unsorted>>

\* json.dump(ms_l, f), then the end of the turn of the page loop
gather_issues_dump ==
    /\ pc = "i_dump"
    /\ files' = [files EXCEPT ![ri] = Written(json_dump(ms_l))]
    /\ IF stop_pagination(seen_before)
       THEN pc' = "finalize" /\ page_n' = page_n
       ELSE pc' = "i_fetch" /\ page_n' = next_page(page_n)
    /\ UNCHANGED <<config, executor, resp, ri, ms_l, prev_diffs, page, idx, seen_before, diffs,
                   history, unsorted>>

(* ------------------------- finalize_repo_data ------------------------- *)
\* the two sorting passes and the opening of the file; the locals of
\* gather_issues_and_prs are gone
finalize_repo_data_sort ==
    /\ pc = "finalize"
    /\ unsorted' = ms_l
    /\ ms_l' = finalize_repo_data(ms_l)
    /\ files' = [files EXCEPT ![ri] = Truncated]
    /\ pc' = "f_dump"
    /\ resp' = NoResp
    /\ UNCHANGED <<config, executor, ri, prev_diffs, page_n, page, idx, seen_before, diffs,
                   history>>

\* json.dump(ms_l, f), the return, and the next turn of process_repos
finalize_repo_data_dump ==
    /\ pc = "f_dump"
    /\ files' = [files EXCEPT ![ri] = Written(json_dump(ms_l))]
    /\ unsorted' = <<>>
    /\ ri' = next_repo(ri)
    /\ pc' = "verify"
    /\ UNCHANGED <<config, executor, resp, ms_l, prev_diffs, page_n, page, idx, seen_before, diffs,
                   history>>

Next ==
    \/ process_repos_verify
    \/ gather_commits_fetch
    \/ gather_commits_item
    \/ gather_commits_open
    \/ gather_commits_dump
    \/ gather_issues_fetch
    \/ gather_issues_item
    \/ gather_issues_open
    \/ gather_issues_dump
    \/ finalize_repo_data_sort
    \/ finalize_repo_data_dump

Spec == Init /\ [][Next]_vars

(* ------------- the classification under any configuration ------------ *)
\* wall-clock hours (+03:00) the cutoffs are drawn from, and UTC hours of the
\* timestamps classified
CutoffHours == {23, 24, 25, 26}
Stamps == {19, 20, 21, 22, 23, 24}

InitClassify ==
    /\ not_before_date \in {fromisoformat_gmt(h) : h \in CutoffHours}
    /\ ms_dates \in UNION {[1..n -> {fromisoformat_gmt(h) : h \in CutoffHours}] :
                             n \in 1..MaxMilestones}
    /\ probe = NoProbe
    /\ call = NoCall
    /\ attempt = 0
    /\ trace = <<>>
    /\ HarvestInit

\* the tests of the item loops applied to two timestamps
classify_pair ==
    /\ \E t1 \in Stamps, t2 \in Stamps :
        /\ t1 <= t2
        /\ probe' = [set |-> TRUE, t1 |-> t1, t2 |-> t2,
                     c1 |-> classify(fromisoformat_Z(t1), not_before_date, ms_dates),
                     c2 |-> classify(fromisoformat_Z(t2), not_before_date, ms_dates)]
    /\ UNCHANGED <<not_before_date, ms_dates, ri, pc, ms_l, prev_diffs, page_n, page,
                   idx, seen_before, diffs, files, history, unsorted, resp, executor>>

NextClassify == classify_pair

SpecClassify == InitClassify /\ [][NextClassify]_vars

(* ------------------- one remote call and its sleeps ------------------ *)
\* the ways an attempt of get_diff can fail: a network error, an error
\* status, a body json() cannot parse (status 200)
DiffFailures == {[exc |-> TRUE, status |-> 0], [exc |-> TRUE, status |-> 403],
                 [exc |-> TRUE, status |-> 500], [exc |-> TRUE, status |-> 200]}

\* the events of trace: requests.get of attempt n with the status it met
\* (-1: it succeeded) and, for a 403, how far ahead its reset header lies;
\* time.sleep(n) of the rate-limit branch or of the backoff
Request(n, status, ahead) ==
    [ev |-> "request", why |-> "", n |-> n, status |-> status,
     ahead |-> IF status = 403 THEN ahead ELSE 0]
Sleep(why, n) == [ev |-> "sleep", why |-> why, n |-> n, status |-> 0, ahead |-> 0]

\* the requests made so far
Requests(t) == Len(SelectSeq(t, LAMBDA e : e.ev = "request"))

\* the rate-limit test of get_diff's except clause
diff_rate_limited(f) == ResponseTruthy(f.status) /\ f.status = 403

\* the mutant of get_diff_except: the backoff does not grow
get_diff_except_flat(f, ahead, k) ==
    (IF diff_rate_limited(f) /\ wait_time(ahead) > 0 /\ wait_time(ahead) < Ceiling
     THEN <<Sleep("rate_limit", wait_time(ahead))>> ELSE <<>>)
    \o <<Sleep("backoff", 1)>>

\* the sleeps of get_diff's except clause after failed attempt k, k not the
\* last one
get_diff_except(f, ahead, k) ==
    (IF diff_rate_limited(f) /\ wait_time(ahead) > 0 /\ wait_time(ahead) < Ceiling
     THEN <<Sleep("rate_limit", wait_time(ahead))>> ELSE <<>>)
    \o <<Sleep("backoff", 2 ^ k)>>

Running(kind, sha) ==
    [kind |-> kind, sha |-> sha, state |-> "running",
     result |-> [filenames |-> {}, total |-> 0]]

InitRetry ==
    /\ not_before_date = fromisoformat_gmt(not_before_d)
    /\ ms_dates = [i \in 1..Len(ms_dates_formatted) |->
                      fromisoformat_gmt(ms_dates_formatted[i])]
    /\ probe = NoProbe
    /\ call \in {Running("get_diff", "s1"), Running("get_diff", "s2"),
                 Running("commits_page", "")}
    /\ attempt = 0
    /\ trace = <<>>
    /\ HarvestInit

\* one turn of the loop of get_diff
get_diff_attempt ==
    /\ call.kind = "get_diff"
    /\ call.state = "running"
    /\ attempt < retry_count
    /\ \/ /\ trace' = Append(trace, Request(attempt, -1, 0))
          /\ call' = [call EXCEPT !.state = "returned",
                                  !.result = get_diff(call.sha, TRUE)]
          /\ attempt' = attempt
       \/ \E f \in DiffFailures, ahead \in Ahead :
            IF attempt = retry_count - 1
            THEN /\ trace' = Append(trace, Request(attempt, f.status, ahead))
                 /\ call' = [call EXCEPT !.state = "returned",
                                         !.result = get_diff(call.sha, FALSE)]
                 /\ attempt' = attempt
            ELSE /\ trace' = Append(trace, Request(attempt, f.status, ahead))
                              \o get_diff_except(f, ahead, attempt)
                 /\ attempt' = attempt + 1
                 /\ call' = call
    /\ UNCHANGED <<config, resp, ri, pc, ms_l, prev_diffs, page_n, page, idx,
                   seen_before, diffs, files, history, unsorted>>

\* one request of a commits page by gather_commits with its except clause:
\* the page is delivered, or the loop is left, or the request is made again
gather_commits_request ==
    /\ call.kind = "commits_page"
    /\ call.state = "running"
    /\ \/ /\ trace' = Append(trace, Request(Requests(trace), -1, 0))
          /\ call' = [call EXCEPT !.state = "delivered"]
       \/ \E f \in FetchFailures, ahead \in Ahead :
            LET h == commits_except(f, ahead)
            IN  /\ trace' = Append(trace, Request(Requests(trace), f.status, ahead))
                             \o (IF f.exc /\ h.sleep > 0
                                 THEN <<Sleep("rate_limit", h.sleep)>> ELSE <<>>)
                /\ call' = IF f.exc /\ h.next = "continue" THEN call
                           ELSE [call EXCEPT !.state = "break"]
    /\ UNCHANGED <<config, resp, attempt, ri, pc, ms_l, prev_diffs, page_n, page, idx,
                   seen_before, diffs, files, history, unsorted>>

NextRetry == get_diff_attempt \/ gather_commits_request

SpecRetry == InitRetry /\ [][NextRetry]_vars

(* =============================== claims =============================== *)
Last(seq) == seq[Len(seq)]
StrictlyIncreasing(ms) == \A i \in 1..Len(ms) - 1 : ms[i].utc < ms[i + 1].utc

\* the buckets of a snapshot: <<milestone, kind, author>>
Buckets(ms) ==
    {<<i, kind, a>> \in (DOMAIN ms) \X Kinds \X {Names[n] : n \in DOMAIN Names} :
        a \in DOMAIN ms[i][kind].val}
BucketOf(ms, b) == ms[b[1]][b[2]].val[b[3]]

\* the instant (UTC hour) a stored date string stands for
InstantOf(date_str) == date_str[1] * HoursPerDay + date_str[2] - GmtOffset

InCommits == pc \in {"c_fetch", "c_item", "c_open", "c_dump"}
InIssues == pc \in {"i_fetch", "i_item", "i_open", "i_dump"}

\* C1 (first part): no page beyond the one on which a listing of the
\* repository being harvested met an item older than the not-before cutoff
\* has been requested for that listing.
C1_NoLaterPage ==
    \A k \in DOMAIN reqlog :
        /\ (reqlog[k][1] = ri /\ reqlog[k][2] = "commits" /\ too_old.commits # 0)
              => reqlog[k][3] <= too_old.commits
        /\ (reqlog[k][1] = ri /\ reqlog[k][2] = "issues" /\ too_old.issues # 0)
              => reqlog[k][3] <= too_old.issues

\* C1 (second part): from the moment a listing has met an item older than
\* the cutoff until it ends, no step records anything in any bucket or
\* requests a page.
C1_NothingAfterOld ==
    [][((InCommits /\ too_old.commits # 0) \/ (InIssues /\ too_old.issues # 0))
          => (ms_l' = ms_l /\ reqlog' = reqlog)]_vars

\* C1: once gather_commits or gather_issues_and_prs meets, on page p, an
\* item whose timestamp is earlier than the not-before cutoff, no later
\* item of page p is recorded in any bucket and no page beyond p is
\* requested for that listing.
C1_PaginationStops == []C1_NoLaterPage /\ C1_NothingAfterOld

\* The feed of three pages: page 1 held c1, page 2 begins with the too old
\* c4 and goes on with c2; the commits listing has ended, only c1 is
\* recorded, and pages 1 and 2 are all that was requested.
C1_Witness ==
    /\ pc = "i_fetch"
    /\ ri = 1
    /\ too_old.commits = 2
    /\ page = <<c4, c2>>
    /\ reqlog = <<<<1, "repo", 200>>, <<1, "commits", 1>>, <<1, "commits", 2>>>>
    /\ ms_l[1].commits.keys = <<"alice">>
    /\ ms_l[1].commits.val["alice"].count = 1
    /\ files[1] = Written(json_dump(ms_l))

\* C2: in the snapshot and in every written file, each author's count
\* equals the length of the author's record list.
C2_CountIsLength ==
    /\ \A b \in Buckets(ms_l) : BucketOf(ms_l, b).count = Len(BucketOf(ms_l, b).list)
    /\ \A r \in Repos : files[r].state = "written" =>
          \A i \in DOMAIN files[r].doc : \A kind \in Kinds :
             \A k \in DOMAIN files[r].doc[i][kind] :
                files[r].doc[i][kind][k][2].count = Len(files[r].doc[i][kind][k][2].list)

\* a finalized snapshot that holds a bucket of two records and a bucket of
\* one, the file being open for the terminal write
C2_Witness ==
    /\ pc = "f_dump"
    /\ \E b \in Buckets(ms_l) : BucketOf(ms_l, b).count = 2
    /\ \E b \in Buckets(ms_l) : BucketOf(ms_l, b).count = 1

\* C3: under strictly increasing cutoffs the class of the earlier of two
\* timestamps is at most the class of the later one, in the order
\* BelowCutoff (-1) < bucket 0 < bucket 1 < ... < AboveAll (Len(ms_dates)).
C3_MonotonicClassify ==
    (probe.set /\ StrictlyIncreasing(ms_dates)) => probe.c1 <= probe.c2

\* two timestamps that fall in bucket 0 and in bucket 1
C3_Witness ==
    /\ probe.set
    /\ StrictlyIncreasing(ms_dates)
    /\ Len(ms_dates) = 2
    /\ probe.c1 = 0
    /\ probe.c2 = 1

\* C4 (state part): every record of milestone bucket i carries a timestamp
\* t with not-before <= t < cutoff[i], and t >= cutoff[i-1] when there is
\* an earlier milestone.
C4_RecordsInWindow ==
    StrictlyIncreasing(ms_dates) =>
        \A b \in Buckets(ms_l) : \A k \in DOMAIN BucketOf(ms_l, b).list :
            LET t == InstantOf(BucketOf(ms_l, b).list[k].date)
            IN  /\ not_before_date.utc <= t
                /\ t < ms_dates[b[1]].utc
                /\ (b[1] = 1 \/ t >= ms_dates[b[1] - 1].utc)

\* C4 (step part): the processing of one item changes at most one milestone
\* entry, the first whose cutoff exceeds the item's timestamp, and none when
\* the timestamp is below the not-before cutoff, not below the last cutoff,
\* or cannot be read.
C4_AtMostOneBucket ==
    [][(pc \in {"c_item", "i_item"} /\ StrictlyIncreasing(ms_dates)) =>
          LET item     == page[idx]
              readable == item.bad \notin {"date", "created_at"}
              t        == IF pc = "c_item" THEN item.date ELSE item.created_at
              changed  == {i \in DOMAIN ms_l : ms_l'[i] # ms_l[i]}
              first    == {i \in DOMAIN ms_dates :
                              /\ t < ms_dates[i].utc
                              /\ \A j \in 1..(i - 1) : t >= ms_dates[j].utc}
          IN  /\ Cardinality(changed) <= 1
              /\ readable => changed \subseteq first
              /\ (\/ ~readable
                  \/ t < not_before_date.utc
                  \/ t >= ms_dates[Len(ms_dates)].utc) => changed = {}]_vars

\* C4: with strictly increasing cutoffs every stored record lies in the
\* window of its milestone, an item is recorded in at most one milestone
\* (the first whose cutoff exceeds its timestamp), and an item below the
\* not-before cutoff or not below the last cutoff is recorded nowhere.
C4_Windows == []C4_RecordsInWindow /\ C4_AtMostOneBucket

\* page 2 of the commits listing was <<c6, c5>>: c6 lies beyond the last
\* cutoff, c5 went to the second milestone, an earlier page filled the first
C4_Witness ==
    /\ pc = "c_open"
    /\ page = <<c6, c5>>
    /\ ms_l[1].commits.keys # <<>>
    /\ ms_l[2].commits.keys = <<"carol">>
    /\ ms_l[2].commits.val["carol"].count = 1

\* C5: every SHA looked up in this harvest caused exactly one get_diff call
\* and all its lookups yielded the same statistics.
C5_OneLookupPerSha ==
    \A sha \in Shas :
        lookups[sha] # {} =>
            /\ diff_calls[sha].feed + diff_calls[sha].pr = 1
            /\ Cardinality(lookups[sha]) = 1

\* C6: a SHA the commit feed has stored in the cache causes no get_diff
\* call from the aggregation of a pull request, the aggregation takes for it
\* the statistics the feed stored, and the pull request's record carries the
\* aggregate of the statistics taken.
C6_FeedShaFromCache ==
    /\ \A sha \in DOMAIN feed_stored :
          /\ diff_calls[sha].pr = 0
          /\ \A k \in DOMAIN diffs : diffs[k][1] = sha => diffs[k][2] = feed_stored[sha]
    /\ (InIssues /\ diffs # <<>>) =>
          \E b \in Buckets(ms_l) :
             /\ b[2] = "prs"
             /\ \E k \in DOMAIN BucketOf(ms_l, b).list :
                   BucketOf(ms_l, b).list[k].diff = pr_aggregate(diffs)

\* the pull request i2 (commits s1, s2, s1) aggregated after the feed had
\* processed s1 and s2
C6_Witness ==
    /\ InIssues
    /\ {"s1", "s2"} \subseteq DOMAIN feed_stored
    /\ Len(diffs) = 2
    /\ diffs[1][1] = "s1"
    /\ diffs[2][1] = "s2"

NameSet == {Names[n] : n \in DOMAIN Names}
AllBuckets == (DOMAIN ms_l) \X Kinds \X NameSet
ListOf(ms, b) == IF Has(ms[b[1]][b[2]], b[3]) THEN BucketOf(ms, b).list ELSE <<>>
CountOf(ms, b) == IF Has(ms[b[1]][b[2]], b[3]) THEN BucketOf(ms, b).count ELSE 0
Occurrences(seq, a) == Cardinality({k \in DOMAIN seq : seq[k] = a})

\* a step that processes a readable commit with two Co-authored-by trailers
\* whose timestamp falls in bucket 0
TwoTrailersInBucket0 ==
    /\ pc = "c_item"
    /\ page[idx].bad = "none"
    /\ Len(coauthor_findall(page[idx].message)) = 2
    /\ not_before_date.utc <= page[idx].date
    /\ page[idx].date < ms_dates[1].utc

\* C7 as claimed: such a step adds exactly one record, with the commit's
\* message and link, to each of three distinct buckets of bucket 0 (the
\* author's and the two co-authors') and changes no other bucket.
C7_ThreeBuckets ==
    [][TwoTrailersInBucket0 =>
          LET commit == page[idx]
              who    == {commit_author(commit)} \cup
                        {coauthor_findall(commit.message)[k] : k \in 1..2}
              hit    == {<<1, "commits", a>> : a \in who}
          IN  /\ Cardinality(who) = 3
              /\ \A b \in hit :
                    /\ ListOf(ms_l', b) = Append(ListOf(ms_l, b), Last(ListOf(ms_l', b)))
                    /\ CountOf(ms_l', b) = CountOf(ms_l, b) + 1
                    /\ Last(ListOf(ms_l', b)).message = commit.message
                    /\ Last(ListOf(ms_l', b)).link = commit.html_url
              /\ \A b \in AllBuckets \ hit :
                    ListOf(ms_l', b) = ListOf(ms_l, b) /\ CountOf(ms_l', b) = CountOf(ms_l, b)]_vars

\* C7 as amended: such a step adds to the bucket of each identity, in bucket
\* 0, one record per occurrence of the identity among the two co-authors
\* and the author (so one record to each of three buckets when the three
\* are distinct), every added record with the commit's message and link,
\* and changes no other bucket.
C7_FanOut ==
    [][TwoTrailersInBucket0 =>
          LET commit == page[idx]
              names  == coauthor_findall(commit.message) \o <<commit_author(commit)>>
          IN  \A b \in AllBuckets :
                LET n   == IF b[1] = 1 /\ b[2] = "commits"
                           THEN Occurrences(names, b[3]) ELSE 0
                    old == ListOf(ms_l, b)
                    new == ListOf(ms_l', b)
                IN  /\ Len(new) = Len(old) + n
                    /\ CountOf(ms_l', b) = CountOf(ms_l, b) + n
                    /\ SubSeq(new, 1, Len(old)) = old
                    /\ \A k \in (Len(old) + 1)..Len(new) :
                          /\ new[k].message = commit.message
                          /\ new[k].link = commit.html_url
                          /\ new[k] = new[Len(new)]]_vars

\* c2 (author alice, co-authors bob and carol) was the first commit of the
\* harvest: three buckets of one record each, the same record in all
C7_Witness ==
    /\ pc = "c_open"
    /\ page = <<c2>>
    /\ page_n = 1
    /\ ms_l[1].commits.keys = <<"bob", "carol", "alice">>
    /\ \A a \in {"alice", "bob", "carol"} :
          /\ ms_l[1].commits.val[a].count = 1
          /\ ms_l[1].commits.val[a].list = ms_l[1].commits.val["alice"].list
    /\ ms_l[1].commits.val["alice"].list[1].message = c2.message
    /\ ms_l[2].commits = EmptyDict

\* C8: finalizing a finalized snapshot changes neither the snapshot nor
\* the document written from it, for the snapshot of every reachable state;
\* and the snapshot finalize_repo_data has left is its own finalization.
C8_FinalizeIdempotent ==
    LET once  == finalize_repo_data(ms_l)
        twice == finalize_repo_data(once)
    IN  /\ twice = once
        /\ json_dump(twice) = json_dump(once)
        /\ pc = "f_dump" => (once = ms_l /\ json_dump(once) = json_dump(ms_l))

\* a snapshot about to be finalized in which one author's list holds two
\* different records of the same date and the keys are out of order
C8_Witness ==
    /\ pc = "finalize"
    /\ finalize_repo_data(ms_l) # ms_l
    /\ ms_l[1].commits.keys = <<"bob", "carol", "alice">>
    /\ \E j, k \in DOMAIN ms_l[1].commits.val["bob"].list :
          /\ j < k
          /\ ms_l[1].commits.val["bob"].list[j].date = ms_l[1].commits.val["bob"].list[k].date
          /\ ms_l[1].commits.val["bob"].list[j] # ms_l[1].commits.val["bob"].list[k]

\* the records of list l that carry date d, in their order in l
OfDate(l, d) == SelectSeq(l, LAMBDA x : x.date = d)

\* C9: when finalize_repo_data has sorted, every map has the authors it had
\* before, each with the count and the full name it had; each author's list
\* has the records it had before (no more, no fewer), in non-decreasing
\* order of timestamp, records of equal timestamp in their previous order;
\* and the keys of each map are in ascending string order.
C9_FinalizeSorts ==
    pc = "f_dump" =>
        /\ DOMAIN ms_l = DOMAIN unsorted
        /\ \A i \in DOMAIN ms_l : \A kind \in Kinds :
            LET before == unsorted[i][kind]
                after  == ms_l[i][kind]
            IN  /\ ms_l[i].date = unsorted[i].date
                /\ DOMAIN after.val = DOMAIN before.val
                /\ Len(after.keys) = Cardinality(DOMAIN before.val)
                /\ {after.keys[k] : k \in DOMAIN after.keys} = DOMAIN before.val
                /\ \A j, k \in DOMAIN after.keys :
                      j < k => StrLess(after.keys[j], after.keys[k])
                /\ \A a \in DOMAIN after.val :
                      LET old == before.val[a].list
                          new == after.val[a].list
                      IN  /\ after.val[a].count = before.val[a].count
                          /\ after.val[a].full_name = before.val[a].full_name
                          /\ Len(new) = Len(old)
                          /\ \A j, k \in DOMAIN new :
                                j < k => InstantOf(new[j].date) <= InstantOf(new[k].date)
                          /\ \A k \in DOMAIN old :
                                OfDate(new, old[k].date) = OfDate(old, old[k].date)

\* finalize_repo_data has sorted a snapshot whose keys were out of order
\* and in which an author's list had a later record before an earlier one
\* and two different records of one date
C9_Witness ==
    /\ pc = "f_dump"
    /\ unsorted[1].commits.keys = <<"bob", "carol", "alice">>
    /\ ms_l[1].commits.keys = <<"alice", "bob", "carol">>
    /\ LET old == unsorted[1].commits.val["alice"].list
       IN  /\ Len(old) = 2
           /\ DateStrLess(old[2].date, old[1].date)
    /\ LET old == unsorted[1].commits.val["bob"].list
       IN  \E j, k \in DOMAIN old :
              /\ j < k
              /\ old[j].date = old[k].date
              /\ old[j] # old[k]

\* C10: a repository whose metadata request was answered 404 has no output
\* file, no remote call beyond that request, and the loop of process_repos
\* has gone on past it (nothing was raised at it).
C10_SkipOnMissing ==
    \A k \in DOMAIN reqlog :
        (reqlog[k][2] = "repo" /\ reqlog[k][3] = 404) =>
            LET r == reqlog[k][1]
            IN  /\ files[r] = NoFile
                /\ remote_calls[r] = 1
                /\ \A j \in DOMAIN reqlog : reqlog[j][1] = r => j = k
                /\ ri > r

\* the first repository was answered 404 and the second is being harvested
C10_Witness ==
    /\ Len(reqlog) >= 1
    /\ reqlog[1] = <<1, "repo", 404>>
    /\ ri = 2
    /\ pc = "c_item"
    /\ files[1] = NoFile

\* C11: no remote failure aborts the run: process_repos is never left by
\* an exception while a repository of repo_list is still to be harvested.
C11_RunGoesOn == ~(pc = "raised" /\ ri <= Len(repo_list))

\* the request events of trace are at these positions
IsRequest(k) == trace[k].ev = "request"
Failure(k) == IsRequest(k) /\ trace[k].status # -1

\* C12: get_diff makes at most retry_count requests and none after one
\* that succeeded; a failed attempt n that is not the last one is followed,
\* before anything else is requested, by exactly one backoff sleep, of 2^n,
\* and then by attempt n + 1; the last attempt is followed by no sleep, and
\* get_diff has returned.
C12_RetryBackoff ==
    call.kind = "get_diff" =>
        /\ Requests(trace) <= retry_count
        /\ \A k \in DOMAIN trace :
            /\ (IsRequest(k) /\ trace[k].status = -1) =>
                  (k = Len(trace) /\ call.state = "returned")
            /\ (Failure(k) /\ trace[k].n = retry_count - 1) =>
                  (k = Len(trace) /\ call.state = "returned")
            /\ (Failure(k) /\ trace[k].n < retry_count - 1) =>
                  \E j \in (k + 1)..Len(trace) :
                      /\ trace[j] = Sleep("backoff", 2 ^ trace[k].n)
                      /\ \A i \in (k + 1)..(j - 1) :
                            trace[i].ev = "sleep" /\ trace[i].why # "backoff"
                      /\ j < Len(trace) =>
                            (IsRequest(j + 1) /\ trace[j + 1].n = trace[k].n + 1)
                      /\ j = Len(trace) =>
                            (call.state = "running" /\ attempt = trace[k].n + 1)

\* get_diff has returned after three failed attempts, of which the second
\* met a 500 and the third a network error
C12_Witness ==
    /\ call.kind = "get_diff"
    /\ call.state = "returned"
    /\ Len(trace) = 5
    /\ trace[2] = Sleep("backoff", 1)
    /\ trace[3] = Request(1, 500, 0)
    /\ trace[4] = Sleep("backoff", 2)
    /\ trace[5] = Request(2, 0, 0)

\* a request that met a 403 whose reset header lies less than the ceiling
\* ahead, and after which the call makes a further attempt
RateLimitSignal(k) ==
    /\ Failure(k)
    /\ trace[k].status = 403
    /\ trace[k].ahead >= 0
    /\ wait_time(trace[k].ahead) < Ceiling
    /\ call.kind = "get_diff" => trace[k].n < retry_count - 1

\* C13: after a get_diff attempt or a commits page request that met such a
\* 403, the call sleeps until the reset time plus the margin before it does
\* anything else.
C13_SleepsUntilReset ==
    \A k \in DOMAIN trace :
        RateLimitSignal(k) =>
            /\ k < Len(trace)
            /\ trace[k + 1] = Sleep("rate_limit", wait_time(trace[k].ahead))

\* a step of gather_commits that looks a commit's statistics up and gets
\* the empty result, every attempt of get_diff having failed
FailedLookup ==
    /\ pc = "c_item"
    /\ diff_calls'[page[idx].sha].feed = diff_calls[page[idx].sha].feed + 1
    /\ prev_diffs'[page[idx].sha] = get_diff(page[idx].sha, FALSE)

\* C14: a commit whose lookup failed in every attempt is still recorded, for
\* each credited identity, in the bucket of its timestamp, with files = 0
\* and total = 0; nothing is raised, the item loop goes on with the next
\* item of the page (or with the save after the last), seen_before is not
\* set, and the page loop requests the next page after the save.
C14_EmptyDiffRecorded ==
    /\ [][FailedLookup =>
            LET commit == page[idx]
                cls    == classify(fromisoformat_Z(commit.date), not_before_date,
                                   ms_dates)
                names  == credited(commit)
            IN  /\ get_diff(commit.sha, FALSE) = [filenames |-> {}, total |-> 0]
                /\ IF idx < Len(page) THEN idx' = idx + 1 /\ pc' = "c_item"
                   ELSE pc' = "c_open"
                /\ page' = page /\ page_n' = page_n
                /\ seen_before' = seen_before /\ ~seen_before
                /\ cls \in 0..(Len(ms_dates) - 1) =>
                      \A k \in DOMAIN names :
                          LET b == <<cls + 1, "commits", names[k]>>
                          IN  /\ Has(ms_l'[cls + 1].commits, names[k])
                              /\ Len(ListOf(ms_l', b))
                                    = Len(ListOf(ms_l, b)) + Occurrences(names, names[k])
                              /\ Last(ListOf(ms_l', b)).link = commit.html_url
                              /\ Last(ListOf(ms_l', b)).diff = [files |-> 0, total |-> 0]
         ]_vars
    /\ [][(pc = "c_dump" /\ ~seen_before) =>
            (pc' = "c_fetch" /\ page_n' = page_n + 1)]_vars

\* the lookup of s2 failed on page 1; its commit is recorded with an empty
\* DiffStat, and c1 of page 2 is recorded behind it
C14_Witness ==
    /\ pc = "c_open"
    /\ page_n = 2
    /\ "s2" \in DOMAIN prev_diffs
    /\ prev_diffs["s2"] = [filenames |-> {}, total |-> 0]
    /\ Has(ms_l[1].commits, "alice")
    /\ LET l == ms_l[1].commits.val["alice"].list
       IN  /\ Len(l) = 2
           /\ l[1].link = c2.html_url
           /\ l[1].diff = [files |-> 0, total |-> 0]
           /\ l[2].link = c1.html_url
           /\ l[2].diff = [files |-> 2, total |-> 3]

\* the requests of page n of a listing of repository r made so far
PageRequests(log, r, listing, n) ==
    Cardinality({k \in DOMAIN log : log[k] = <<r, listing, n>>})

\* C15: a page loop is left on a transient error (a network error or a
\* server error) of a page request only when that page has been requested
\* retry_count times.
C15_PageRetried ==
    [][(/\ pc \in {"c_fetch", "i_fetch"}
        /\ pc' # pc
        /\ resp'.exc
        /\ resp'.status \in {0, 500})
       => PageRequests(reqlog', ri,
                       IF pc = "c_fetch" THEN "commits" ELSE "issues",
                       page_n) >= retry_count]_vars

\* every record of snapshot ms is in snapshot ms2, in the same bucket, as
\* often at least
RecordsKept(ms, ms2) ==
    \A b \in (DOMAIN ms) \X Kinds \X NameSet :
        \A k \in DOMAIN ListOf(ms, b) :
            Occurrences(ListOf(ms2, b), ListOf(ms, b)[k])
                >= Occurrences(ListOf(ms, b), ListOf(ms, b)[k])

\* every list of snapshot ms is the beginning of its list in snapshot ms2
Extended(ms, ms2) ==
    \A b \in (DOMAIN ms) \X Kinds \X NameSet :
        /\ Len(ListOf(ms2, b)) >= Len(ListOf(ms, b))
        /\ SubSeq(ListOf(ms2, b), 1, Len(ListOf(ms, b))) = ListOf(ms, b)

InHarvest == pc \in {"c_fetch", "c_item", "c_open", "c_dump", "i_fetch", "i_item",
                     "i_open", "i_dump", "finalize", "f_dump"}

\* C16: a failed commits page request leaves the snapshot as it is
\* and hands over to gather_issues_and_prs for the same repository, after
\* which no commits page is requested; a failed issues page request leaves
\* the snapshot as it is and hands over to finalize_repo_data; a step of
\* the harvest that changes the snapshot adds to the end of its lists, the
\* sorting of finalize_repo_data keeps every record, and finalize_repo_data
\* writes the snapshot.
C16_HarvestGoesOn ==
    /\ [][(pc = "c_fetch" /\ resp'.exc /\ resp'.items = 0 /\ reqlog' # reqlog)
            => (pc' = "i_fetch" /\ ri' = ri /\ ms_l' = ms_l)]_vars
    /\ [][(pc \in {"i_fetch", "i_item", "i_open", "i_dump", "finalize", "f_dump"})
            => (pc' # "c_fetch"
                /\ \/ reqlog' = reqlog
                   \/ /\ reqlog' = Append(reqlog, Last(reqlog'))
                      /\ Last(reqlog')[2] # "commits")]_vars
    /\ [][(pc = "i_fetch" /\ resp'.exc /\ resp'.items = 0 /\ reqlog' # reqlog)
            => (pc' = "finalize" /\ ri' = ri /\ ms_l' = ms_l)]_vars
    /\ [][(InHarvest /\ pc # "finalize" /\ ms_l' # ms_l) => Extended(ms_l, ms_l')]_vars
    /\ [][pc = "finalize" => RecordsKept(ms_l, ms_l')]_vars
    /\ [][pc = "f_dump" => files'[ri] = Written(json_dump(ms_l))]_vars

\* the request of page 2 of the commits listing has failed after c1 of
\* page 1 was recorded; the issues were listed, and finalize_repo_data has
\* written a file that holds the record of c1 and that of pull request #2
C16_Witness ==
    /\ ri = 2
    /\ pc = "verify"
    /\ SelectSeq(reqlog, LAMBDA e : e[1] = 1 /\ e[2] = "commits")
          = <<<<1, "commits", 1>>, <<1, "commits", 2>>>>
    /\ fetched = 2
    /\ files[1].state = "written"
    /\ Len(files[1].doc[1].commits) = 1
    /\ files[1].doc[1].commits[1][2].list[1].link = c1.html_url
    /\ Len(files[1].doc[2].prs) = 1
    /\ files[1].doc[2].prs[1][2].list[1].link = i2.html_url

\* the file of the repository being harvested holds the snapshot in memory
Persisted == files[ri] = [state |-> "written", doc |-> json_dump(ms_l)]

\* C17: a page loop is between two pages only with the snapshot in memory
\* on file (or with no file and an empty snapshot, no page having been
\* processed yet): every page whose items were processed, the terminating
\* one included, is followed by a write of the whole snapshot, and a page
\* beyond the first is requested only when the file holds the snapshot.
C17_SavedBeforeNextPage ==
    /\ [](pc \in {"c_fetch", "i_fetch", "finalize"} =>
            \/ Persisted
            \/ files[ri] = NoFile /\ ms_l = new_ms_l(ms_dates))
    /\ []((pc \in {"c_fetch", "i_fetch"} /\ page_n > 1) => Persisted)
    /\ [][(pc \in {"c_item", "i_item"} /\ pc' # pc)
            => pc' = (IF pc = "c_item" THEN "c_open" ELSE "i_open")]_vars
    /\ [][(pc \in {"c_open", "i_open"})
            => (pc' = (IF pc = "c_open" THEN "c_dump" ELSE "i_dump")
                /\ ms_l' = ms_l)]_vars
    /\ [][(pc \in {"c_dump", "i_dump"})
            => (files'[ri] = [state |-> "written", doc |-> json_dump(ms_l)]
                /\ ms_l' = ms_l)]_vars
    /\ [][(reqlog' # reqlog /\ Last(reqlog')[2] # "repo" /\ Last(reqlog')[3] > 1)
            => (Persisted /\ ms_l' = ms_l)]_vars

\* page 2 of the commits listing was requested with c1 of page 1 on file;
\* it was left at its second item, which is too old, and the record of c2
\* is on file before the issues are listed
C17_Witness ==
    /\ pc = "i_fetch"
    /\ page_n = 1
    /\ reqlog = <<<<1, "repo", 200>>, <<1, "commits", 1>>, <<1, "commits", 2>>>>
    /\ page = <<c2, c4>>
    /\ too_old.commits = 2
    /\ Persisted
    /\ Len(files[1].doc[1].commits) = 3
    /\ files[1].doc[1].commits[1][1] = "alice"
    /\ Len(files[1].doc[1].commits[1][2].list) = 2

\* the harvest of repository ri is past its first write of the file: a
\* page beyond the first is at hand, or the commits listing has ended with
\* the save of a page that has a commit older than the cutoff
PastFirstWrite ==
    \/ pc \in {"c_fetch", "c_item", "c_open", "c_dump"} /\ page_n > 1
    \/ /\ pc \in {"i_fetch", "i_item", "i_open", "i_dump", "finalize", "f_dump"}
       /\ (page_n > 1 \/ too_old.commits # 0)

\* what a reader of a file gets is a snapshot: an array with one entry for
\* each milestone, each with its date and its commits, issues and prs maps
StructurallyValid(f) ==
    /\ f.state = "written"
    /\ Len(f.doc) = Len(ms_dates)
    /\ \A i \in DOMAIN f.doc :
          DOMAIN f.doc[i] = {"date", "commits", "issues", "prs"}

\* C18: from the first write of a repository's file on, the file holds a
\* complete, structurally valid snapshot at every moment, the moments
\* within a later write included.
C18_ReadIsValid == PastFirstWrite => StructurallyValid(files[ri])

\* every record of document d1 is in document d2 under the same milestone,
\* resource kind and author, as often at least
DocKept(d1, d2) ==
    /\ DOMAIN d1 = DOMAIN d2
    /\ \A i \in DOMAIN d1 : \A kind \in Kinds :
        \A m \in DOMAIN d1[i][kind] :
            \E m2 \in DOMAIN d2[i][kind] :
                /\ d2[i][kind][m2][1] = d1[i][kind][m][1]
                /\ \A k \in DOMAIN d1[i][kind][m][2].list :
                      Occurrences(d2[i][kind][m2][2].list, d1[i][kind][m][2].list[k])
                          >= Occurrences(d1[i][kind][m][2].list,
                                         d1[i][kind][m][2].list[k])

\* C19: when a write of the file of the repository being harvested begins,
\* the snapshot it is going to write (for finalize_repo_data: the sorted
\* one) holds every record the file holds, in the same bucket; and the
\* write puts that snapshot, unchanged, into the file.
C19_PersistedRecordsStay ==
    /\ [][(pc \in {"c_open", "i_open", "finalize"} /\ files[ri].state = "written")
            => DocKept(files[ri].doc, json_dump(ms_l'))]_vars
    /\ [][(pc \in {"c_dump", "i_dump", "f_dump"})
            => (ms_l' = ms_l
                /\ files'[ri] = [state |-> "written", doc |-> json_dump(ms_l)])]_vars
    /\ [](InHarvest /\ files[ri].state = "written"
            => DocKept(files[ri].doc, json_dump(ms_l)))

\* the file holds c1 of page 1 under alice, and page 2 has added c2 to the
\* same bucket in memory: the second write is about to begin
C19_Witness ==
    /\ pc = "c_open"
    /\ page_n = 2
    /\ files[1].state = "written"
    /\ Len(files[1].doc[1].commits) = 1
    /\ files[1].doc[1].commits[1][1] = "alice"
    /\ files[1].doc[1].commits[1][2].list[1].link = c1.html_url
    /\ Len(ms_l[1].commits.val["alice"].list) = 2
    /\ ms_l[1].commits.val["alice"].list[2].link = c2.html_url

\* a request that met a 403 whose computed wait reaches the ceiling, and
\* that is not the last attempt of get_diff
OverCeiling(k) ==
    /\ Failure(k)
    /\ trace[k].status = 403
    /\ wait_time(trace[k].ahead) >= Ceiling
    /\ call.kind = "get_diff" => trace[k].n < retry_count - 1

\* C20: no rate-limit sleep is as long as the ceiling; after a 403 whose
\* computed wait reaches the ceiling the call makes no rate-limit sleep and
\* goes on to its next attempt.
C20_CeilingRespected ==
    \A k \in DOMAIN trace :
        /\ (trace[k].ev = "sleep" /\ trace[k].why = "rate_limit")
              => trace[k].n < Ceiling
        /\ OverCeiling(k) =>
              /\ k < Len(trace) => trace[k + 1].why # "rate_limit"
              /\ \/ call.state = "running"
                 \/ \E j \in (k + 1)..Len(trace) : IsRequest(j)

(* ------------------------------- C21 ---------------------------------- *)
\* a request of a page of a listing, as logged
IsPageRequest(e) == e[2] \in {"commits", "issues"}

\* C21: for each listing of a repository the requested page numbers start
\* at 1 and rise by exactly 1 after each page that was delivered and
\* processed; a page number is requested again only when its request failed
\* and the page loop went round without processing anything. A step that
\* logs a page request either opens the listing (no earlier request of that
\* listing of that repository is in the log) with page 1, or follows the
\* last request of the same listing: with the next number when that request
\* delivered a page, with the same number when it did not.
C21_PagesInOrder ==
    [][(reqlog' # reqlog /\ IsPageRequest(Last(reqlog')))
         => LET new == Last(reqlog')
            IN  /\ reqlog' = Append(reqlog, new)
                /\ IF /\ reqlog # <<>>
                      /\ Last(reqlog)[1] = new[1]
                      /\ Last(reqlog)[2] = new[2]
                   THEN new[3] = IF resp.items > 0
                                 THEN Last(reqlog)[3] + 1
                                 ELSE Last(reqlog)[3]
                   ELSE /\ new[3] = 1
                        /\ \A k \in DOMAIN reqlog :
                              ~(reqlog[k][1] = new[1] /\ reqlog[k][2] = new[2])]_vars

\* pages 1 and 2 of both listings of the first repository were requested,
\* each second page right after the first one was processed and saved
C21_Witness ==
    /\ \E k \in 1..(Len(reqlog) - 1) :
          reqlog[k] = <<1, "commits", 1>> /\ reqlog[k + 1] = <<1, "commits", 2>>
    /\ \E k \in 1..(Len(reqlog) - 1) :
          reqlog[k] = <<1, "issues", 1>> /\ reqlog[k + 1] = <<1, "issues", 2>>
    /\ files[1].state = "written"

(* ------------------------------- C22 ---------------------------------- *)
\* the place of a request in the harvest of a repository: the metadata
\* request, the commits listing, the issues listing
Stage(listing) ==
    IF listing = "repo" THEN 0 ELSE IF listing = "commits" THEN 1 ELSE 2

\* C22: the repositories are taken in the order of the list, one at a time,
\* and in each of them all commits page requests come before all issues
\* page requests, which come before the finalization; the last write of a
\* repository's file is the one of finalize_repo_data and holds the sorted
\* snapshot. Step by step: the loop position moves only to the next entry,
\* when a repository is skipped or finalized; every request is logged for
\* the repository of the current turn, after the requests of the earlier
\* turns and not before a request of an earlier stage of its own turn, and
\* never once finalization has begun; only the current repository's file is
\* written; the step that ends a turn writes the sorted snapshot, so no
\* later step writes that file again.
C22_HarvestOrder ==
    [][/\ ri' # ri => /\ ri' = ri + 1
                      /\ pc \in {"verify", "f_dump"}
                      /\ pc' = "verify"
       /\ reqlog' # reqlog =>
            LET new == Last(reqlog')
            IN  /\ reqlog' = Append(reqlog, new)
                /\ new[1] = ri
                /\ pc \notin {"finalize", "f_dump"}
                /\ reqlog # <<>> =>
                      \/ Last(reqlog)[1] < new[1]
                      \/ /\ Last(reqlog)[1] = new[1]
                         /\ Stage(Last(reqlog)[2]) <= Stage(new[2])
                         /\ new[2] # "repo"
       /\ \A r \in Repos : files'[r] # files[r] => r = ri
       /\ pc = "f_dump" =>
            /\ ri' = ri + 1
            /\ files'[ri] = [state |-> "written",
                             doc |-> json_dump(finalize_repo_data(unsorted))]]_vars

\* both repositories were harvested through to their final write, each with
\* requests of both listings
C22_Witness ==
    /\ ri = Len(repo_list) + 1
    /\ \A r \in Repos :
          /\ files[r].state = "written"
          /\ \E j, k \in DOMAIN reqlog :
                /\ j < k
                /\ reqlog[j] = <<r, "commits", 1>>
                /\ reqlog[k] = <<r, "issues", 1>>

(* ------------------------------- C23 ---------------------------------- *)
\* the item the loop is at raises while it is processed: a commit without
\* a readable date, an issue without a readable created_at, or an issue
\* without a state whose date falls into a bucket (issue['state'] is read
\* inside the milestone loop only)
Raises ==
    \/ /\ pc = "c_item"
       /\ page[idx].bad # "none"
    \/ /\ pc = "i_item"
       /\ \/ page[idx].bad = "created_at"
          \/ /\ page[idx].bad = "state"
             /\ classify(fromisoformat_Z(page[idx].created_at),
                         not_before_date, ms_dates) \in 0..(Len(ms_dates) - 1)

\* C23: an item that raises while it is processed changes no bucket of the
\* snapshot (no record, no count, no author entry), and the item loop goes
\* on with the next item of the page (or, after the last item, with the
\* save of the page).
C23_MalformedItemSkipped ==
    [][Raises => /\ ms_l' = ms_l
                 /\ IF idx < Len(page)
                    THEN idx' = idx + 1 /\ pc' = pc
                    ELSE pc' \in {"c_open", "i_open"}]_vars

(* ------------------------------- C24 ---------------------------------- *)
\* the sum of the line totals the cache holds for the SHAs of S
RECURSIVE TotalOver(_, _)
TotalOver(S, cache) ==
    IF S = {} THEN 0
    ELSE LET sha == CHOOSE x \in S : TRUE
         IN  cache[sha].total + TotalOver(S \ {sha}, cache)

\* the item loop is at a readable pull request whose date falls in a bucket
AtRecordedPR ==
    /\ pc = "i_item"
    /\ page[idx].pull_request
    /\ page[idx].bad = "none"
    /\ classify(fromisoformat_Z(page[idx].created_at), not_before_date, ms_dates)
          \in 0..(Len(ms_dates) - 1)

\* C24: the statistics recorded for a pull request are the aggregate, over
\* the distinct SHAs of its commit listing, of the statistics the cache
\* holds for them once they were looked up (an entry cached before is left
\* as it was, a missing one is what get_diff returned): files is the size of
\* the union of the file-name sets, total the sum of the totals. When the
\* commit listing cannot be fetched no lookup is made, the cache is left
\* alone and the pull request is recorded with files = 0 and total = 0.
C24_PRDiffStat ==
    [][AtRecordedPR =>
         LET issue == page[idx]
             i     == classify(fromisoformat_Z(issue.created_at),
                               not_before_date, ms_dates) + 1
             S     == {issue.pr_commits[k] : k \in DOMAIN issue.pr_commits}
             none  == [filenames |-> {}, total |-> 0]
             made  == remote_calls'[ri] - remote_calls[ri]
                      - (IF issue.comments > 0 THEN 1 ELSE 0) - 1
         IN  /\ Has(ms_l'[i].prs, issue.login)
             /\ LET l == ms_l'[i].prs.val[issue.login].list
                    d == Last(l).diff
                IN  /\ Len(l) = Len(ListOf(ms_l, <<i, "prs", issue.login>>)) + 1
                    /\ Last(l).link = issue.html_url
                    /\ \/ /\ prev_diffs' = prev_diffs
                          /\ made = 0
                          /\ d = [files |-> 0, total |-> 0]
                       \/ /\ S \subseteq DOMAIN prev_diffs'
                          /\ made = Cardinality(S \ DOMAIN prev_diffs)
                          /\ \A sha \in S :
                                IF sha \in DOMAIN prev_diffs
                                THEN prev_diffs'[sha] = prev_diffs[sha]
                                ELSE prev_diffs'[sha] \in {RemoteDiff(sha), none}
                          /\ d.files = Cardinality(UNION {prev_diffs'[sha].filenames :
                                                            sha \in S})
                          /\ d.total = TotalOver(S, prev_diffs')]_vars

\* bob's pull requests of the second bucket: #2, whose listing names s1
\* twice and s2 (two commits changing f2), recorded with 2 files and 8
\* lines; and #3, whose commit listing could not be fetched (s5 was never
\* looked up), recorded with 0 files and 0 lines
C24_Witness ==
    /\ Len(ms_l) >= 2
    /\ Has(ms_l[2].prs, "bob")
    /\ \E j, k \in DOMAIN ms_l[2].prs.val["bob"].list :
          LET l == ms_l[2].prs.val["bob"].list
          IN  /\ l[j].link = i2.html_url
              /\ l[j].diff = [files |-> 2, total |-> 8]
              /\ l[k].link = i3.html_url
              /\ l[k].diff = [files |-> 0, total |-> 0]
    /\ "s5" \notin DOMAIN prev_diffs

(* ------------------------------- C25 ---------------------------------- *)
\* the links the records of repository r can carry, by kind of map, and the
\* SHAs its feed and its pull requests can name
LinksOf(r, kind) ==
    IF kind = "commits" THEN {c.html_url : c \in CommitCatalog(r)}
    ELSE {i.html_url : i \in IssueCatalog(r)}
ShasOf(r) ==
    {c.sha : c \in CommitCatalog(r)}
      \cup UNION {{i.pr_commits[k] : k \in DOMAIN i.pr_commits} : i \in IssueCatalog(r)}

\* every record of the document doc was gathered from repository r
RecordsFrom(doc, r) ==
    \A i \in DOMAIN doc : \A kind \in Kinds :
        \A a \in DOMAIN doc[i][kind] :
            LET l == doc[i][kind][a][2].list
            IN  \A k \in DOMAIN l : l[k].link \in LinksOf(r, kind)

\* C25: the harvest of a repository starts with an empty diff cache and
\* with one milestone entry per cutoff whose commits, issues and prs maps
\* are empty; while a repository is harvested the cache holds statistics of
\* its own commits only, and what is written to a repository's file are
\* records gathered from that repository only (some other repository's file
\* is never written).
C25_NoCrossRepository ==
    /\ [](InHarvest => DOMAIN prev_diffs \subseteq ShasOf(ri))
    /\ [][/\ (pc = "verify" /\ pc' = "c_fetch") =>
               /\ prev_diffs' = <<>>
               /\ Len(ms_l') = Len(ms_dates)
               /\ \A i \in DOMAIN ms_l' : \A kind \in Kinds :
                     ms_l'[i][kind] = [keys |-> <<>>, val |-> <<>>]
          /\ \A r \in Repos :
                files'[r] # files[r] =>
                   /\ r = ri
                   /\ RecordsFrom(files'[r].doc, r)]_vars

\* the second repository is being harvested after the first one left
\* records of commits and of pull requests in its file, with a cache that
\* holds the second repository's commit only
C25_Witness ==
    /\ ri = 2
    /\ pc = "f_dump"
    /\ files[1].state = "written"
    /\ \E i \in DOMAIN files[1].doc :
          /\ files[1].doc[i].commits # <<>>
          /\ files[1].doc[i].prs # <<>>
    /\ DOMAIN prev_diffs = {"s1"}
    /\ \E i \in DOMAIN ms_l : ms_l[i].commits.keys # <<>>

(* ------------------------------- C26 ---------------------------------- *)
\* what a turn of a page loop has left to do: the items not yet delivered
\* (the feed is finite: MaxItems items at most), then the place in the turn
TurnWidth == MaxPageLen + 4
TurnLeft ==
    (MaxItems - fetched) * TurnWidth
      + (IF pc \in {"c_item", "i_item"} THEN 3 + Len(page) - idx
         ELSE IF pc \in {"c_open", "i_open"} THEN 2
         ELSE IF pc \in {"c_dump", "i_dump"} THEN 1
         ELSE 0)

\* a measure of the work the harvest of the current repository has left:
\* 0 once the terminal write is made, 1 before it, 2 before the sorting,
\* above that the turns of the issues loop, above those the turns of the
\* commits loop
HarvestLeft ==
    IF ~InHarvest THEN 0
    ELSE IF pc = "f_dump" THEN 1
    ELSE IF pc = "finalize" THEN 2
    ELSE IF InIssues THEN 3 + TurnLeft
    ELSE 3 + (MaxItems + 1) * TurnWidth + TurnLeft

\* C26: with a finite feed, the harvest of a repository reaches the
\* terminal write of finalize_repo_data whatever the remote calls answer:
\* every step of a harvest, whether its remote calls succeed, fail or are
\* answered 403, strictly lowers a measure that is a natural number, so no
\* harvest goes on forever, and the only step that leaves a harvest is
\* the terminal write of finalize_repo_data to the repository's file.
C26_HarvestTerminates ==
    /\ [](HarvestLeft \in Nat)
    /\ [][InHarvest =>
            /\ HarvestLeft' < HarvestLeft
            /\ ~InHarvest' =>
                  /\ pc = "f_dump"
                  /\ files'[ri].state = "written"
                  /\ files'[ri].doc = json_dump(ms_l)]_vars

\* the first repository's harvest has made its terminal write although
\* the lookup of s2 failed in all its attempts, and the second repository's
\* harvest has come to finalization on a 403 answer to an issues page
C26_Witness ==
    /\ ri = 2
    /\ pc = "finalize"
    /\ resp.exc /\ resp.status = 403
    /\ files[1].state = "written"
    /\ \E i \in DOMAIN files[1].doc : \E a \in DOMAIN files[1].doc[i].commits :
          \E k \in DOMAIN files[1].doc[i].commits[a][2].list :
              LET rec == files[1].doc[i].commits[a][2].list[k]
              IN  rec.link = c2.html_url /\ rec.diff = [files |-> 0, total |-> 0]

(* ------------------------------- C27 ---------------------------------- *)
\* the maps of kind `kind` are the same in every entry before and after
SameMaps(ms, ms2, kind) ==
    \A i \in DOMAIN ms : ms2[i][kind] = ms[i][kind]

\* C27: a step of gather_commits leaves the issues and the prs maps of
\* every milestone entry as they are, a step of gather_issues_and_prs the
\* commits maps, and of the other two the one the item does not belong to
\* (a pull request changes prs maps only, a plain issue issues maps only);
\* no step of either changes the number of the entries, their order or
\* their date labels, which are those of the milestone cutoffs.
C27_Frame ==
    [][(InCommits \/ InIssues) =>
         /\ Len(ms_l') = Len(ms_l)
         /\ \A i \in DOMAIN ms_l :
               /\ ms_l'[i].date = ms_l[i].date
               /\ ms_l[i].date = strftime(ms_dates[i])
         /\ InCommits => /\ SameMaps(ms_l, ms_l', "issues")
                         /\ SameMaps(ms_l, ms_l', "prs")
         /\ InIssues => /\ SameMaps(ms_l, ms_l', "commits")
                        /\ pc # "i_item" => ms_l' = ms_l
                        /\ pc = "i_item" =>
                              IF page[idx].pull_request
                              THEN SameMaps(ms_l, ms_l', "issues")
                              ELSE SameMaps(ms_l, ms_l', "prs")]_vars

\* in the first repository commits and then a pull request were recorded:
\* the commits and the prs maps hold records, the issues maps none
C27_Witness ==
    /\ ri = 1
    /\ pc = "i_open"
    /\ \E i \in DOMAIN ms_l : \E a \in DOMAIN ms_l[i].commits.val :
          ms_l[i].commits.val[a].count > 0
    /\ \E i \in DOMAIN ms_l : \E a \in DOMAIN ms_l[i].prs.val :
          ms_l[i].prs.val[a].count > 0
    /\ \A i \in DOMAIN ms_l : ms_l[i].issues.keys = <<>>

====
